---- MODULE Spec2Model ----
(***************************************************************************)
(* Circuit Template Analyzer (Artifex1/circuit-graph-analysis).            *)
(*                                                                         *)
(* Two specifications over one set of variables:                           *)
(*   GraphSpec  the constraint-graph engine of internal/analyzer.go:       *)
(*              buildGraph, findUnderconstrainedSignals, analyzeGraph,     *)
(*              applied to bounded constraint lists and signal tables.     *)
(*   Spec       the orchestrator: main, Analyzer.AnalyzeFile, processFile, *)
(*              analyzeTemplate, Wait, with the worker pool, the           *)
(*              WaitGroup and the files each unit creates and removes.     *)
(***************************************************************************)
EXTENDS Integers, Sequences, FiniteSets, TLC

\* Bounds of the model.
MaxSig == 3
MaxConstraints == 2
NumFiles == 2
MaxParallelism == 2

VARIABLES
    \* GraphSpec
    gpc,          \* "off" | "start" | "built" | "analyzed" | "panic"
    constraints,  \* the Constraints value handed to buildGraph
    signals,      \* the []string handed to buildGraph (LoadFromSym's result)
    graph,        \* the *simple.UndirectedGraph buildGraph returned
    report,       \* what analyzeGraph printed
    \* Spec
    parallelism,  \* the -parallel flag: cap(workerPool)
    visualize,    \* the -visualize flag
    mainpc,       \* main: "submit" | "complete"
    submitted,    \* how many files main has called AnalyzeFile on
    workerPool,   \* len(workerPool): the slots held
    wg,           \* the WaitGroup counter
    crashed,      \* an unrecovered panic has ended the process
    pc,           \* where each file's goroutine is
    todo,         \* the templates processFile has still to analyze
    art,          \* what the compiler wrote for the template in hand
    panicking,    \* the panic the goroutine is unwinding ("" for none)
    fs,           \* the temporary files of each unit's template in hand
    orphans       \* the kinds of temporary files left by finished templates

gvars == <<gpc, constraints, signals, graph, report>>

ovars == <<parallelism, visualize, mainpc, submitted, workerPool, wg, crashed,
           pc, todo, art, panicking, fs, orphans>>

vars == <<gvars, ovars>>

----------------------------------------------------------------------------
\* Helpers over sets and sequences.

Range(s) == {s[i] : i \in 1..Len(s)}

Min(S) == CHOOSE x \in S : \A y \in S : x <= y

Max(S) == CHOOSE x \in S : \A y \in S : y <= x

\* The elements of a finite set of integers as a sequence, ascending or
\* descending. Go iterates a map in an unspecified order; the two orders
\* stand for it.
RECURSIVE SetToSeq(_, _)
SetToSeq(S, asc) ==
    IF S = {} THEN <<>>
    ELSE LET x == IF asc THEN Min(S) ELSE Max(S)
         IN  <<x>> \o SetToSeq(S \ {x}, asc)

----------------------------------------------------------------------------
\* gonum simple.UndirectedGraph: nodes maps an ID to the node (here its
\* name), edges maps an ID to the IDs it has an edge to.

NoNodes == [id \in {} |-> ""]

NoEdges == [id \in {} |-> {}]

NewUndirectedGraph == [nodes |-> NoNodes, edges |-> NoEdges]

HasNode(g, id) == id \in DOMAIN g.nodes

\* AddNode: g.nodes[n.ID()] = n (the caller has checked the ID is new).
AddNode(g, id, name) ==
    [nodes |-> [i \in DOMAIN g.nodes \cup {id} |->
                    IF i = id THEN name ELSE g.nodes[i]],
     edges |-> [i \in DOMAIN g.edges \cup {id} |->
                    IF i \in DOMAIN g.edges THEN g.edges[i] ELSE {}]]

\* SetEdge(simple.Edge{F: f, T: t}): both directions of the edge map.
SetEdge(g, f, t) ==
    [nodes |-> g.nodes,
     edges |-> [i \in DOMAIN g.edges |->
                    IF i = f THEN g.edges[i] \cup {t}
                    ELSE IF i = t THEN g.edges[i] \cup {f}
                    ELSE g.edges[i]]]

\* graph.From(id): the nodes reachable over one edge.
From(g, id) == g.edges[id]

\* RemoveNode(id): nothing when absent, else the node and its edges go.
RemoveNode(g, id) ==
    IF ~HasNode(g, id) THEN g
    ELSE [nodes |-> [i \in DOMAIN g.nodes \ {id} |-> g.nodes[i]],
          edges |-> [i \in DOMAIN g.edges \ {id} |-> g.edges[i] \ {id}]]

\* graph.Copy(dst, src): every node, then every edge, through dst's own
\* AddNode and SetEdge.
RECURSIVE CopyNodes(_, _, _)
CopyNodes(dst, src, ids) ==
    IF ids = <<>> THEN dst
    ELSE CopyNodes(AddNode(dst, Head(ids), src.nodes[Head(ids)]), src, Tail(ids))

RECURSIVE CopyEdges(_, _, _)
CopyEdges(dst, src, pairs) ==
    IF pairs = {} THEN dst
    ELSE LET p == CHOOSE q \in pairs : TRUE
         IN  CopyEdges(SetEdge(dst, p[1], p[2]), src, pairs \ {p})

Copy(dst, src) ==
    CopyEdges(CopyNodes(dst, src, SetToSeq(DOMAIN src.nodes, TRUE)), src,
              {<<u, v>> \in (DOMAIN src.nodes) \X (DOMAIN src.nodes) :
                   v \in From(src, u)})

\* traverse.DepthFirst.Walk with topo.ConnectedComponents' callbacks: a node
\* joins the component when it is popped, its unvisited neighbours are
\* marked and pushed.
RECURSIVE Walk(_, _, _, _, _)
Walk(g, stack, visited, c, asc) ==
    IF stack = <<>> THEN [visited |-> visited, c |-> c]
    ELSE LET t    == stack[Len(stack)]
             to   == SetToSeq(From(g, t) \ visited, asc)
         IN  Walk(g, SubSeq(stack, 1, Len(stack) - 1) \o to,
                  visited \cup Range(to), Append(c, t), asc)

\* DepthFirst.WalkAll: one Walk from every node not yet visited.
RECURSIVE WalkAll(_, _, _, _, _)
WalkAll(g, ids, visited, cc, asc) ==
    IF ids = <<>> THEN cc
    ELSE IF Head(ids) \in visited THEN WalkAll(g, Tail(ids), visited, cc, asc)
    ELSE LET w == Walk(g, <<Head(ids)>>, visited \cup {Head(ids)}, <<>>, asc)
         IN  WalkAll(g, Tail(ids), w.visited, Append(cc, w.c), asc)

\* topo.ConnectedComponents(g): a list of components, each a list of IDs.
ConnectedComponents(g, asc) ==
    WalkAll(g, SetToSeq(DOMAIN g.nodes, asc), {}, <<>>, asc)

----------------------------------------------------------------------------
\* internal/analyzer.go: the constraint-graph engine.

\* A result of buildGraph: the graph, or the goroutine panicked.
Built(g) == [panic |-> FALSE, g |-> g]

Panicked(g) == [panic |-> TRUE, g |-> g]

\* Mutant: the third linear expression is left out of the pooling.
signalSetTwoExpressions(constraint) == UNION {Range(constraint[k]) : k \in 1..2}

\* Lines 149-154: the set of signals of the three linear expressions.
signalSet(constraint) == UNION {Range(constraint[k]) : k \in 1..3}

\* Lines 157-166: get or create the node of every signal of the constraint.
\* signals[signal] is a Go slice index: out of range, it panics.
RECURSIVE createNodes(_, _, _)
createNodes(st, order, sigs) ==
    IF st.panic \/ order = <<>> THEN st
    ELSE LET signal == Head(order)
         IN  IF HasNode(st.g, signal)
             THEN createNodes(st, Tail(order), sigs)
             ELSE IF signal < 0 \/ signal >= Len(sigs)
             THEN Panicked(st.g)
             ELSE createNodes(Built(AddNode(st.g, signal, sigs[signal + 1])),
                              Tail(order), sigs)

\* Lines 169-173: for i, for j := i+1: SetEdge(nodes[i], nodes[j]). gonum's
\* SetEdge panics on an edge from a node to itself.
RECURSIVE connectNodes(_, _, _, _)
connectNodes(st, nodes, i, j) ==
    IF st.panic \/ i > Len(nodes) THEN st
    ELSE IF j > Len(nodes) THEN connectNodes(st, nodes, i + 1, i + 2)
    ELSE IF nodes[i] = nodes[j] THEN Panicked(st.g)
    ELSE connectNodes(Built(SetEdge(st.g, nodes[i], nodes[j])), nodes, i, j + 1)

\* Lines 147-174: one iteration of the loop over the constraints.
addConstraint(st, constraint, sigs, asc) ==
    LET nodes == SetToSeq(signalSet(constraint), asc)
    IN  connectNodes(createNodes(st, nodes, sigs), nodes, 1, 2)

RECURSIVE buildLoop(_, _, _, _)
buildLoop(st, data, sigs, asc) ==
    IF st.panic \/ data = <<>> THEN st
    ELSE buildLoop(addConstraint(st, Head(data), sigs, asc), Tail(data), sigs, asc)

\* buildGraph(data, signals); asc is the order Go happens to iterate maps in.
buildGraph(data, sigs, asc) == buildLoop(Built(NewUndirectedGraph), data, sigs, asc)

\* Lines 255-265: the names of the nodes with at most one neighbour.
RECURSIVE underLoop(_, _)
underLoop(g, ids) ==
    IF ids = <<>> THEN <<>>
    ELSE (IF Cardinality(From(g, Head(ids))) <= 1
          THEN <<g.nodes[Head(ids)]>> ELSE <<>>)
         \o underLoop(g, Tail(ids))

\* Mutant: only the nodes without any neighbour are reported.
findUnderconstrainedIsolated(g, asc) ==
    LET ids == SetToSeq({id \in DOMAIN g.nodes : Cardinality(From(g, id)) < 1}, asc)
    IN  [i \in 1..Len(ids) |-> g.nodes[ids[i]]]

findUnderconstrainedSignals(g, asc) == underLoop(g, SetToSeq(DOMAIN g.nodes, asc))

\* Mutant: the components are computed with node 0 still in the copy.
analyzeGraphKeepsNode0(g, asc) ==
    LET underconstrained == findUnderconstrainedSignals(g, asc)
        gc        == Copy(NewUndirectedGraph, g)
        subgraphs == ConnectedComponents(gc, asc)
    IN  [nodeCount        |-> Cardinality(DOMAIN g.nodes),
         underconstrained |-> underconstrained,
         subgraphs        |-> subgraphs,
         independent      |-> Len(subgraphs) > 1,
         names            |-> [i \in 1..Len(subgraphs) |->
                                  [k \in 1..Len(subgraphs[i]) |->
                                      g.nodes[subgraphs[i][k]]]],
         g                |-> g]

\* Lines 216-253: what analyzeGraph prints, and the graph it leaves behind.
\* g is the caller's graph; gc is the copy node 0 is removed from.
analyzeGraph(g, asc) ==
    LET underconstrained == findUnderconstrainedSignals(g, asc)
        gc        == RemoveNode(Copy(NewUndirectedGraph, g), 0)
        subgraphs == ConnectedComponents(gc, asc)
    IN  [nodeCount        |-> Cardinality(DOMAIN g.nodes),
         underconstrained |-> underconstrained,
         subgraphs        |-> subgraphs,
         independent      |-> Len(subgraphs) > 1,
         names            |-> [i \in 1..Len(subgraphs) |->
                                  [k \in 1..Len(subgraphs[i]) |->
                                      g.nodes[subgraphs[i][k]]]],
         g                |-> g]

----------------------------------------------------------------------------
\* The signal-table document and LoadFromSym.

\* A line of the document as encoding/csv sees it: its fields, or a line
\* the reader cannot parse (a bare quote).
Line(fields) == [ok |-> TRUE, fields |-> fields]

BadLine == [ok |-> FALSE, fields |-> <<>>]

\* csv.Reader.ReadAll with FieldsPerRecord = 0: a parse error on a bad
\* line, ErrFieldCount on a record whose field count differs from the
\* first record's.
ReadAll(doc) ==
    IF \E i \in 1..Len(doc) :
           ~doc[i].ok \/ Len(doc[i].fields) # Len(doc[1].fields)
    THEN [err |-> TRUE, records |-> <<>>]
    ELSE [err |-> FALSE, records |-> [i \in 1..Len(doc) |-> doc[i].fields]]

\* LoadFromSym: "1" at index 0, then record[3] of every record; record[3]
\* is a Go slice index and panics on a record of fewer than four fields.
LoadFromSym(doc) ==
    LET r == ReadAll(doc)
    IN  IF r.err
        THEN [err |-> TRUE, panic |-> FALSE, signals |-> <<>>]
        ELSE IF \E i \in 1..Len(r.records) : Len(r.records[i]) < 4
        THEN [err |-> FALSE, panic |-> TRUE, signals |-> <<>>]
        ELSE [err |-> FALSE, panic |-> FALSE,
              signals |-> <<"1">> \o [i \in 1..Len(r.records) |-> r.records[i][4]]]

----------------------------------------------------------------------------
\* GraphSpec: the engine applied to every bounded input.

SymNames == <<"main.a", "main.b", "main.c", "main.d", "main.e", "main.f">>

\* A well-formed signal table of n rows: "#s,#w,#c,name".
SymTable(n) == [i \in 1..n |-> Line(<<"s", "w", "c", SymNames[i]>>)]

\* The table names every signal up to MaxSig, or all but the last.
SymRowCounts == {MaxSig - 1, MaxSig}

None == 0 - 1

Expr(s) == IF s = None THEN <<>> ELSE <<s>>

\* Constraints whose linear expressions hold at most one signal each: the
\* slots in ascending order, empty slots first; signal 1 may also fill the
\* first two slots at once (one signal in two expressions).
ConstraintChoices ==
    {<<Expr(t[1]), Expr(t[2]), Expr(t[3])>> : t \in
        {t \in (None..MaxSig) \X (None..MaxSig) \X (None..MaxSig) :
            /\ t[1] <= t[2] /\ t[2] <= t[3]
            /\ t[2] = t[3] => t[3] = None
            /\ t[1] = t[2] => t[2] \in {None, 1}}}

ConstraintLists == UNION {[1..n -> ConstraintChoices] : n \in 0..MaxConstraints}

NoReport == [nodeCount |-> 0, underconstrained |-> <<>>, subgraphs |-> <<>>,
             independent |-> FALSE, names |-> <<>>, g |-> NewUndirectedGraph]

Files == 1..NumFiles

NoArt == [json |-> [ok |-> FALSE, constraints |-> <<>>], sym |-> <<>>, made |-> FALSE]

\* The orchestrator before main has run (and all through GraphSpec).
OrchestratorIdle ==
    /\ mainpc = "submit"
    /\ submitted = 0
    /\ workerPool = 0
    /\ wg = 0
    /\ crashed = FALSE
    /\ pc = [u \in Files |-> "idle"]
    /\ todo = [u \in Files |-> <<>>]
    /\ art = [u \in Files |-> NoArt]
    /\ panicking = [u \in Files |-> ""]
    /\ fs = [u \in Files |-> {}]
    /\ orphans = {}

GInit ==
    /\ gpc = "start"
    /\ parallelism = 1
    /\ visualize = FALSE
    /\ OrchestratorIdle
    /\ constraints \in ConstraintLists
    /\ \E n \in SymRowCounts : signals = LoadFromSym(SymTable(n)).signals
    /\ graph = NewUndirectedGraph
    /\ report = NoReport

\* graph := buildGraph(constraints, signals)
GBuild ==
    /\ gpc = "start"
    /\ \E asc \in BOOLEAN :
          LET r == buildGraph(constraints, signals, asc)
          IN  /\ gpc' = IF r.panic THEN "panic" ELSE "built"
              /\ graph' = IF r.panic THEN NewUndirectedGraph ELSE r.g
    /\ UNCHANGED <<constraints, signals, report, ovars>>

\* analyzeGraph(graph)
GAnalyze ==
    /\ gpc = "built"
    /\ \E asc \in BOOLEAN :
          /\ report' = analyzeGraph(graph, asc)
          /\ graph' = report'.g
    /\ gpc' = "analyzed"
    /\ UNCHANGED <<constraints, signals, ovars>>

GNext == GBuild \/ GAnalyze

GraphSpec == GInit /\ [][GNext]_vars

----------------------------------------------------------------------------
\* The constraints document and LoadFromJson.

\* The keys a linear expression's JSON object may carry, in the order the
\* model ranges over them.
JsonKeys == <<"0", "1", "2", "3", "x">>

\* stringToInt: fmt.Sscanf(s, "%d", &result); result stays 0 when s is no
\* number.
stringToInt(s) ==
    CASE s = "0" -> 0
      [] s = "1" -> 1
      [] s = "2" -> 2
      [] s = "3" -> 3
      [] OTHER   -> 0

\* The keys of one expression, each converted, as the []int64 of the
\* constraint.
RECURSIVE intKeys(_, _)
intKeys(expression, keys) ==
    IF keys = <<>> THEN <<>>
    ELSE (IF Head(keys) \in expression THEN <<stringToInt(Head(keys))>> ELSE <<>>)
         \o intKeys(expression, Tail(keys))

\* LoadFromJson: an error when the document does not unmarshal, else every
\* constraint's three key sets converted.
LoadFromJson(doc) ==
    IF ~doc.ok
    THEN [err |-> TRUE, constraints |-> <<>>]
    ELSE [err |-> FALSE,
          constraints |-> [i \in 1..Len(doc.constraints) |->
                              [k \in 1..3 |-> intKeys(doc.constraints[i][k], JsonKeys)]]]

\* What a successful compiler run may leave behind: the two documents.
Artifact(json, sym) == [json |-> json, sym |-> sym, made |-> TRUE]

JsonDoc(cs) == [ok |-> TRUE, constraints |-> cs]

BadJson == [ok |-> FALSE, constraints |-> <<>>]

SomeConstraints == <<<<{"1"}, {"2"}, {"0"}>>, <<{"2"}, {"3", "x"}, {}>>>>

Artifacts ==
    { \* well-formed
      Artifact(JsonDoc(SomeConstraints), SymTable(3)),
      \* the constraints document is not JSON
      Artifact(BadJson, SymTable(3)),
      \* a signal table that is not tabular: a row of another length than
      \* the first, and a line the reader cannot parse
      Artifact(JsonDoc(SomeConstraints),
               <<Line(<<"s", "w", "c", "main.a">>), Line(<<"s", "w", "c">>), BadLine>>),
      \* signal-table rows without a fourth field
      Artifact(JsonDoc(SomeConstraints),
               <<Line(<<"s", "w", "c">>), Line(<<"s", "w", "c">>)>>),
      \* a signal table that names fewer signals than the constraints use
      Artifact(JsonDoc(SomeConstraints), SymTable(1)) }

----------------------------------------------------------------------------
\* Spec: main, Analyzer.AnalyzeFile and the per-file goroutine.

\* The templates extractTemplates may find in a file, by name.
TemplateLists == {<<>>, <<"T">>, <<"U", "T">>}

Init ==
    /\ gpc = "off"
    /\ constraints = <<>>
    /\ signals = <<>>
    /\ graph = NewUndirectedGraph
    /\ report = NoReport
    /\ parallelism \in 1..MaxParallelism
    /\ visualize \in BOOLEAN
    /\ OrchestratorIdle

\* Mutant: the send never blocks (a pool without a capacity).
SlotAlwaysFree == TRUE

\* The channel send workerPool <- struct{}{} can proceed: the buffer of
\* capacity parallelism is not full.
SlotFree == workerPool < parallelism

\* Mutant: AnalyzeFile starts the goroutine without wg.Add(1).
wgAddForgotten(w) == w

\* wg.Add(1)
wgAdd(w) == w + 1

\* wg.Done()
wgDone(w) == w - 1

\* wg.Wait() returns
wgWaitReturns == wg = 0

\* main, lines 41-45: AnalyzeFile(file): wg.Add(1), start the goroutine.
AnalyzeFile ==
    /\ ~crashed
    /\ mainpc = "submit"
    /\ submitted < NumFiles
    /\ submitted' = submitted + 1
    /\ wg' = wgAdd(wg)
    /\ pc' = [pc EXCEPT ![submitted + 1] = "acquire"]
    /\ UNCHANGED <<gvars, parallelism, visualize, mainpc, workerPool, crashed,
                   todo, art, panicking, fs, orphans>>

\* main, lines 48-50: Wait() returns, "Analysis complete" is printed.
Wait ==
    /\ ~crashed
    /\ mainpc = "submit"
    /\ submitted = NumFiles
    /\ wgWaitReturns
    /\ mainpc' = "complete"
    /\ UNCHANGED <<gvars, parallelism, visualize, submitted, workerPool, wg,
                   crashed, pc, todo, art, panicking, fs, orphans>>

\* Line 34: acquire a worker.
Acquire(u) ==
    /\ ~crashed
    /\ pc[u] = "acquire"
    /\ SlotFree
    /\ workerPool' = workerPool + 1
    /\ pc' = [pc EXCEPT ![u] = "read"]
    /\ UNCHANGED <<gvars, parallelism, visualize, mainpc, submitted, wg, crashed,
                   todo, art, panicking, fs, orphans>>

\* processFile, lines 45-50: read the file and extract its templates; a
\* read error is returned and printed by the goroutine (line 38).
ReadSource(u) ==
    /\ ~crashed
    /\ pc[u] = "read"
    /\ \/ /\ pc' = [pc EXCEPT ![u] = "release"]
          /\ todo' = todo
       \/ \E templates \in TemplateLists :
             /\ todo' = [todo EXCEPT ![u] = templates]
             /\ pc' = [pc EXCEPT ![u] =
                          IF templates = <<>> THEN "release" ELSE "template"]
    /\ UNCHANGED <<gvars, parallelism, visualize, mainpc, submitted, workerPool,
                   wg, crashed, art, panicking, fs, orphans>>

\* analyzeTemplate has returned an error or nil after running the deferred
\* removals in removed: the files of the run that are still there belong to
\* nobody any more. processFile prints the error (lines 53-55) and goes on
\* to the next template.
Returned(u, files, removed) ==
    /\ fs' = [fs EXCEPT ![u] = {}]
    /\ orphans' = orphans \cup (files \ removed)
    /\ art' = [art EXCEPT ![u] = NoArt]
    /\ todo' = [todo EXCEPT ![u] = Tail(@)]
    /\ pc' = [pc EXCEPT ![u] = IF Tail(todo[u]) = <<>> THEN "release" ELSE "template"]

\* analyzeTemplate, lines 62-66: CreateTempCircomFile and the deferred
\* removal of the working copy.
CreateTempCircomFile(u) ==
    /\ ~crashed
    /\ pc[u] = "template"
    /\ \/ \* os.ReadFile or os.CreateTemp fails: no file
          Returned(u, {}, {})
       \/ \* tempFile.Write fails: the file exists, its name is not returned
          Returned(u, {"tmp"}, {})
       \/ \* the working copy is written
          /\ fs' = [fs EXCEPT ![u] = {"tmp"}]
          /\ pc' = [pc EXCEPT ![u] = "args"]
          /\ UNCHANGED <<orphans, art, todo>>
    /\ UNCHANGED <<gvars, parallelism, visualize, mainpc, submitted, workerPool,
                   wg, crashed, panicking>>

\* analyzeTemplate, lines 68-71: the unit is in GenerateRandomArgs, drawing
\* from math/rand's process-wide source; then AddMainComponent.
AddMainComponent(u) ==
    /\ ~crashed
    /\ pc[u] = "args"
    /\ \/ \* AddMainComponent fails
          Returned(u, fs[u], {"tmp"})
       \/ /\ pc' = [pc EXCEPT ![u] = "compile"]
          /\ UNCHANGED <<fs, orphans, art, todo>>
    /\ UNCHANGED <<gvars, parallelism, visualize, mainpc, submitted, workerPool,
                   wg, crashed, panicking>>

\* analyzeTemplate, lines 73-78: CompileCircuit, then defer the removal of
\* both documents. The compiler may fail, or write any of the two.
CompileCircuit(u) ==
    /\ ~crashed
    /\ pc[u] = "compile"
    /\ \/ \* cmd.Run fails
          Returned(u, fs[u], {"tmp"})
       \/ \* neither document
          Returned(u, fs[u], {"tmp"})
       \/ \* the constraints document but no signal table
          Returned(u, fs[u] \cup {"json"}, {"tmp"})
       \/ \* both documents
          \E a \in Artifacts :
             /\ fs' = [fs EXCEPT ![u] = {"tmp", "json", "sym"}]
             /\ art' = [art EXCEPT ![u] = a]
             /\ pc' = [pc EXCEPT ![u] = "load"]
             /\ UNCHANGED <<orphans, todo>>
    /\ UNCHANGED <<gvars, parallelism, visualize, mainpc, submitted, workerPool,
                   wg, crashed, panicking>>

\* analyzeTemplate, lines 82-91, as far as it gets on the two documents:
\* "json" or "sym" for the error returned, the place of a panic, or "" when
\* the graph is built.
loadOutcome(a) ==
    LET j == LoadFromJson(a.json)
        s == LoadFromSym(a.sym)
    IN  IF j.err THEN "json"
        ELSE IF s.err THEN "sym"
        ELSE IF s.panic THEN "panic in LoadFromSym"
        ELSE IF buildGraph(j.constraints, s.signals, TRUE).panic
        THEN "panic in buildGraph"
        ELSE ""

IsPanic(out) == out \in {"panic in LoadFromSym", "panic in buildGraph"}

\* analyzeTemplate, lines 80-91: load both documents and build the graph.
\* On an error the three deferred removals run and the error is returned; on
\* a panic they run too, and the panic unwinds on into the goroutine's own
\* deferred calls.
LoadAndBuild(u) ==
    /\ ~crashed
    /\ pc[u] = "load"
    /\ LET out == loadOutcome(art[u])
       IN  IF IsPanic(out)
           THEN /\ panicking' = [panicking EXCEPT ![u] = out]
                /\ fs' = [fs EXCEPT ![u] = {}]
                /\ art' = [art EXCEPT ![u] = NoArt]
                /\ pc' = [pc EXCEPT ![u] = "release"]
                /\ UNCHANGED <<orphans, todo>>
           ELSE IF out # ""
           THEN /\ Returned(u, fs[u], {"tmp", "json", "sym"})
                /\ UNCHANGED panicking
           ELSE /\ pc' = [pc EXCEPT ![u] = "analyze"]
                /\ art' = [art EXCEPT ![u] = NoArt]
                /\ UNCHANGED <<fs, orphans, todo, panicking>>
    /\ UNCHANGED <<gvars, parallelism, visualize, mainpc, submitted, workerPool,
                   wg, crashed>>

\* The unit is in visualizeGraph, writing <name>_circuit_graph.html in the
\* working directory.
Visualizing(u) == pc[u] = "analyze" /\ visualize

\* analyzeTemplate, lines 92-97: visualizeGraph when asked to, analyzeGraph,
\* return nil; the three deferred removals run.
VisualizeAndAnalyze(u) ==
    /\ ~crashed
    /\ pc[u] = "analyze"
    /\ Returned(u, fs[u], {"tmp", "json", "sym"})
    /\ UNCHANGED <<gvars, parallelism, visualize, mainpc, submitted, workerPool,
                   wg, crashed, panicking>>

\* Line 35, deferred: release the worker.
Release(u) ==
    /\ ~crashed
    /\ pc[u] = "release"
    /\ workerPool' = workerPool - 1
    /\ pc' = [pc EXCEPT ![u] = "wgdone"]
    /\ UNCHANGED <<gvars, parallelism, visualize, mainpc, submitted, wg, crashed,
                   todo, art, panicking, fs, orphans>>

\* Line 33, deferred: wg.Done(). A goroutine that is panicking has now run
\* all its deferred calls.
Done(u) ==
    /\ ~crashed
    /\ pc[u] = "wgdone"
    /\ wg' = wgDone(wg)
    /\ pc' = [pc EXCEPT ![u] = IF panicking[u] # "" THEN "fatal" ELSE "done"]
    /\ UNCHANGED <<gvars, parallelism, visualize, mainpc, submitted, workerPool,
                   crashed, todo, art, panicking, fs, orphans>>

\* A panic nothing recovered: the Go runtime ends the process.
Crash ==
    /\ ~crashed
    /\ \E u \in Files : pc[u] = "fatal"
    /\ crashed' = TRUE
    /\ UNCHANGED <<gvars, parallelism, visualize, mainpc, submitted, workerPool,
                   wg, pc, todo, art, panicking, fs, orphans>>

Next ==
    \/ AnalyzeFile
    \/ Wait
    \/ Crash
    \/ \E u \in Files :
          \/ Acquire(u)
          \/ ReadSource(u)
          \/ CreateTempCircomFile(u)
          \/ AddMainComponent(u)
          \/ CompileCircuit(u)
          \/ LoadAndBuild(u)
          \/ VisualizeAndAnalyze(u)
          \/ Release(u)
          \/ Done(u)

Spec == Init /\ [][Next]_vars

----------------------------------------------------------------------------
\* The co-occurrence relation of the constraint list, read off the input.

\* The signals of constraint i, over its three linear expressions.
Pooled(i) ==
    {constraints[i][k][p] : <<k, p>> \in
        {kp \in (1..3) \X (1..1 + MaxSig) : kp[2] <= Len(constraints[i][kp[1]])}}

Occurs(s, i) == s \in Pooled(i)

Referenced == UNION {Pooled(i) : i \in 1..Len(constraints)}

CoOccur(u, v) ==
    u # v /\ \E i \in 1..Len(constraints) : Occurs(u, i) /\ Occurs(v, i)

Named(s) == s >= 0 /\ s < Len(signals)

AllNamed == \A s \in Referenced : Named(s)

GraphReturned == gpc \in {"built", "analyzed"}

----------------------------------------------------------------------------
\* Claims on the constraint-graph engine (checked under GraphSpec).

\* The co-occurrence graph of the input: every referenced signal with the
\* signals that share a constraint with it.
CoGraph ==
    LET pooled == [i \in 1..Len(constraints) |-> Pooled(i)]
        R      == UNION {pooled[i] : i \in 1..Len(constraints)}
    IN  [u \in R |->
            {v \in R \ {u} : \E i \in 1..Len(constraints) : {u, v} \subseteq pooled[i]}]

\* C6: a constraint that references a signal index with no entry in the
\* name table still gets its node, labelled with a placeholder that is not
\* a name of the table, and the build of the whole graph completes.
C6_UnnamedSignalGetsPlaceholder ==
    (gpc # "start" /\ ~AllNamed) =>
        /\ GraphReturned
        /\ DOMAIN graph.nodes = Referenced
        /\ \A s \in Referenced : ~Named(s) => graph.nodes[s] \notin Range(signals)

\* C8: when every referenced signal index has a name entry, buildGraph
\* returns exactly the co-occurrence graph: the nodes are the referenced
\* signals, each carrying the name at its index, and u has an edge to v if
\* and only if u # v and both occur in one constraint; so there is no
\* self-loop and no signal is missing or duplicated.
C8_BuildGraphIsCoOccurrenceGraph ==
    (gpc # "start" /\ AllNamed) =>
        LET co == CoGraph
        IN  /\ GraphReturned
            /\ graph.edges = co
            /\ graph.nodes = [u \in DOMAIN co |-> signals[u + 1]]

\* A pair of signals repeated by both constraints: built, the edge present
\* once and nothing else at u.
C8_Witness ==
    /\ gpc = "built"
    /\ Len(constraints) = 2
    /\ \E u, v \in Referenced :
          /\ u # v
          /\ Occurs(u, 1) /\ Occurs(v, 1) /\ Occurs(u, 2) /\ Occurs(v, 2)
          /\ graph.edges[u] = {v}

\* The maximal connected sets of the co-occurrence graph co restricted to
\* the nodes R.
IsComponent(B, R, co) ==
    /\ B # {}
    /\ \A u \in B : co[u] \cap R \subseteq B
    /\ \A S \in SUBSET B :
          (S # {} /\ S # B) => \E u \in S : co[u] \cap (B \ S) # {}

Components(R, co) == {B \in SUBSET R : IsComponent(B, R, co)}

\* C9: the connectivity check yields exactly the partition of the nodes
\* other than node 0 into maximal connected sets, each node listed once,
\* reports independent subgraphs exactly when there are two or more, yields
\* no component for an empty remainder, and leaves the built graph (node 0
\* and its edges included) as it was.
C9_ComponentsAfterRemovingNode0 ==
    gpc = "analyzed" =>
        LET co   == CoGraph
            cs   == Components(DOMAIN co \ {0}, co)
            subs == report.subgraphs
        IN  /\ {Range(subs[i]) : i \in 1..Len(subs)} = cs
            /\ Len(subs) = Cardinality(cs)
            /\ \A i \in 1..Len(subs) : Len(subs[i]) = Cardinality(Range(subs[i]))
            /\ report.independent = (Cardinality(cs) >= 2)
            /\ (DOMAIN co \ {0} = {} => subs = <<>>)
            /\ graph.edges = co

\* Node 0 is the only bridge between two clusters: two components.
C9_Witness ==
    /\ gpc = "analyzed"
    /\ \E u, v \in Referenced \ {0} :
          /\ u # v /\ CoOccur(0, u) /\ CoOccur(0, v) /\ ~CoOccur(u, v)
          /\ Referenced = {0, u, v}
          /\ {Range(report.subgraphs[i]) : i \in 1..Len(report.subgraphs)}
                = {{u}, {v}}
    /\ report.independent

\* C10: the names reported as potentially underconstrained are exactly the
\* names of the referenced signals that share a constraint with at most
\* one other signal, node 0 included.
C10_UnderconstrainedIsDegreeAtMostOne ==
    gpc = "analyzed" =>
        LET co == CoGraph
        IN  Range(report.underconstrained) =
                {signals[s + 1] : s \in {r \in DOMAIN co : Cardinality(co[r]) <= 1}}

\* The constraints [{1,2},{2,3}]: signals 1 and 3 reported, signal 2 not.
C10_Witness ==
    /\ gpc = "analyzed"
    /\ Len(constraints) = 2
    /\ Referenced = {1, 2, 3}
    /\ Occurs(1, 1) /\ Occurs(2, 1) /\ Occurs(2, 2) /\ Occurs(3, 2)
    /\ Range(report.underconstrained) = {signals[2], signals[4]}
    /\ signals[3] \notin Range(report.underconstrained)

----------------------------------------------------------------------------
\* Claims on the orchestrator (checked under Spec).

\* A unit is executing its pipeline from acquiring a slot to releasing it.
Executing(u) ==
    pc[u] \in {"read", "template", "args", "compile", "load", "analyze", "release"}

\* A unit is submitted and has not got a slot yet.
WaitingForSlot(u) == pc[u] = "acquire"

ExecutingUnits == {u \in Files : Executing(u)}

\* C1: at any time at most parallelism units are executing their pipeline,
\* however many were submitted; the pool holds one slot per executing unit.
C1_AtMostParallelismExecuting ==
    /\ Cardinality(ExecutingUnits) <= parallelism
    /\ workerPool = Cardinality(ExecutingUnits)

\* More units submitted than slots: parallelism units execute while
\* another one, already submitted, waits for a slot.
C1_Witness ==
    /\ Cardinality(ExecutingUnits) = parallelism
    /\ \E u \in Files : WaitingForSlot(u)

\* C2: when Wait has returned ("Analysis complete"), no submitted unit is
\* waiting for a slot or executing: each has run its pipeline to its end,
\* released its slot and called Done.
C2_WaitReturnsAfterAllUnits ==
    mainpc = "complete" =>
        \A u \in Files :
            /\ ~WaitingForSlot(u)
            /\ ~Executing(u)
            /\ pc[u] \in {"done", "fatal"}

\* Wait has returned with every unit done, one of which left an error
\* behind, after units had to queue for the pool.
C2_Witness ==
    /\ mainpc = "complete"
    /\ \A u \in Files : pc[u] = "done"
    /\ parallelism < NumFiles
    /\ orphans # {}

\* C3: whatever step of a unit's pipeline fails (reading the source, the
\* working copy, the entry point, the compiler, loading the constraints,
\* loading the signal table), the failure stays with that unit: it is
\* reported as an error, the process keeps running for the other units,
\* and the pool holds no slot for a unit that has ended.
C3_FailureIsolation ==
    /\ ~crashed
    /\ workerPool = Cardinality(ExecutingUnits)

\* C4: no temporary file outlives the analyzeTemplate call that created
\* it: the working copy, the constraints document and the signal-table
\* document are all removed when it ends, however it ends.
C4_NoArtifactSurvives ==
    /\ orphans = {}
    /\ \A u \in Files : pc[u] \in {"idle", "acquire", "read", "template",
                                   "release", "wgdone", "done", "fatal"}
                           => fs[u] = {}

\* C5: a malformed signal table (a row without a fourth field, a line that
\* is not tabular) makes LoadFromSym return an error that ends only the
\* template in hand: the unit's goroutine does not panic in LoadFromSym.
C5_MalformedSymIsAnError ==
    \A u \in Files : panicking[u] # "panic in LoadFromSym"

\* C7: apart from the pool and the WaitGroup, nothing is used by two units:
\* no two units are drawing from the random source at the same time, and no
\* two units are writing the same visualization file at the same time.
C7_NothingSharedBetweenUnits ==
    \A u, v \in Files :
        u # v =>
            /\ ~(pc[u] = "args" /\ pc[v] = "args")
            /\ ~(Visualizing(u) /\ Visualizing(v) /\ Head(todo[u]) = Head(todo[v]))

====
